---- MODULE Spec2Model ----
(***************************************************************************)
(* RideShare backend: the live-channel core.                               *)
(*                                                                         *)
(*  - ConnectionManager and websocket_endpoint of websocket_handler.py     *)
(*    (specification Spec): the registry dictionaries, one task per        *)
(*    websocket, one step per stretch of code between two awaits.          *)
(*  - the Socket.IO handlers of socket_handler.py (specification SpecSio). *)
(*  - the drift check of LocationRepository (SpecDrift), the two distance  *)
(*    functions (SpecGeo), RideRepository on one ride (SpecRide), the      *)
(*    cached participants' locations (SpecLoc) and the refresh tokens of   *)
(*    UserService (SpecAuth), each on its own.                             *)
(*                                                                         *)
(* Python's asyncio runs one task at a time and switches tasks only at an  *)
(* await, so the code between two awaits is one atomic action.             *)
(***************************************************************************)
EXTENDS Integers, Sequences, FiniteSets, Bags, TLC

\* ------------------------------------------------------------------ bounds
MaxMsgs == 1         \* inbound messages received in a run, all websockets together,
                     \* and one more on a websocket that was taken out of the registry
MaxFaults == 2       \* peers lost and tasks cancelled in a run
MaxEvents == 4       \* Socket.IO events received in a run
MaxKm == 5           \* the riders of the drift check are within this many km
MaxRuns == 2         \* runs of the drift check
MaxSeats == 2        \* the greatest max_participants a ride is given
MaxClock == 1        \* the seconds the clock runs through, from 0

Socks == {"w1", "w2"}                 \* websockets, one endpoint task each
Sids == {"s1", "s2"}                  \* Socket.IO sessions
Users == {"u1", "u2"}
Rides == {"r1", "r2"}                 \* rides stored in the database
NoUser == "none"

\* RideParticipant rows: ride -> user -> status
Participants ==
  [r \in Rides |-> IF r = "r1" THEN [u \in Users |-> "accepted"]
                   ELSE [u \in Users |-> IF u = "u1" THEN "accepted" ELSE "pending"]]

\* what a client presents: <<token, ride_id>>.  Token "bad" does not verify,
\* token "anon" verifies but carries no user_id, any other token carries the
\* user id of that name.  Ride "r9" is not in the database.
Attempts ==
  { <<"bad", "r1">>, <<"anon", "r1">>, <<"u1", "r9">>, <<"u2", "r2">>,
    <<"u1", "r1">>, <<"u2", "r1">>, <<"u1", "r2">> }

\* coordinates a location_update carries: <<latitude, longitude>> in degrees
Coords == { <<0, 0>>, <<91, 0>>, <<1, 181>> }
NoCoord == <<>>

WS_1008_POLICY_VIOLATION == 1008

\* the riders of the ride the drift check is run on, and the positions they
\* can have: points of one meridian, given in km of arc from its southmost
\* point considered (User.current_latitude; NoLat when it is NULL)
Riders == {"p1", "p2", "p3"}
NoLat == -1
Lats == 0..MaxKm

\* settings.drift_alert_distance_km
drift_alert_distance_km == 2

\* the coordinates the distance functions are tried on, in degrees: latitudes
\* -90..90 and longitudes -180..180 on a grid of GridStep degrees
GridStep == 30
GridLats == { GridStep * k : k \in -3..3 }
GridLons == { 2 * GridStep * k : k \in -3..3 }

\* "R = 6371  # Earth's radius in kilometers"
R == 6371

VARIABLES
  active_connections,   \* ConnectionManager: user -> ride -> set of websockets
  ride_monitors,        \* ConnectionManager: ride -> set of users
  task,                 \* websocket -> the state of its websocket_endpoint task
  alive,                \* websocket -> the peer's side of the transport is open
  location_updates,     \* LocationUpdate rows
  current_location,     \* User.current_latitude / current_longitude
  cache,                \* redis user_location:<id>
  drift_alert_rows,     \* DriftAlert rows: ride -> how many
  active_rides,         \* socket_handler: ride id -> ride object
  heap,                 \* socket_handler: ride object -> participants dict
  rooms,                \* socket_handler: Socket.IO rooms, set of <<sid, ride>>
  handler,              \* socket_handler: the running event handlers, a bag
  sio_log,              \* what the Socket.IO clients have done so far
  rider_status,         \* drift check: RideParticipant.status of each rider
  rider_latitude,       \* drift check: User.current_latitude of each rider
  drift_alerts,         \* drift check: the DriftAlert rows of the ride, a bag
  drift_run,            \* drift check: the runs made and what the last returned
  points,               \* distance: the two points, <<lat1, lon1, lat2, lon2>>
  measured,             \* distance: what the two functions returned for them
  ride,                 \* rides: the Ride row (one ride), or NoRide
  ride_participants,    \* rides: RideParticipant.status of each user, or "none"
  joining,              \* rides: the users whose join_ride has made its checks
  ride_locations,       \* redis ride_locations:<ride id>
  loc_log,              \* the last answer of get_ride_participant_locations
  refresh_token,        \* tokens: User.refresh_token of each user, or NoToken
  now,                  \* tokens: the clock, in whole seconds
  refreshing,           \* tokens: the refresh_tokens calls past their lookup
  spent                 \* tokens: the refresh tokens used or revoked so far

wsvars == <<active_connections, ride_monitors, task, alive, location_updates,
            current_location, cache, drift_alert_rows>>
siovars == <<active_rides, heap, rooms, handler, sio_log>>
driftvars == <<rider_status, rider_latitude, drift_alerts, drift_run>>
geovars == <<points, measured>>
ridevars == <<ride, ride_participants, joining>>
cachevars == <<ride_locations, loc_log>>
authvars == <<refresh_token, now, refreshing, spent>>
svcvars == <<geovars, ridevars, cachevars, authvars>>
vars == <<wsvars, siovars, driftvars, svcvars>>

\* ------------------------------------------------------------ dictionaries
EmptyDict == <<>>
DictSet(d, k, v) == [x \in DOMAIN d \cup {k} |-> IF x = k THEN v ELSE d[x]]
DictDel(d, k) == [x \in DOMAIN d \ {k} |-> d[x]]

Reg(ac, rm) == [ac |-> ac, rm |-> rm]

\* self.active_connections[user_id].get(ride_id, set()), or set() for no user
Conns(ac, u, r) == IF u \in DOMAIN ac /\ r \in DOMAIN ac[u] THEN ac[u][r] ELSE {}

Members(rm, r) == IF r \in DOMAIN rm THEN rm[r] ELSE {}

get_active_users(rm, r) == Members(rm, r)

get_connection_count(rm, r) == Cardinality(Members(rm, r))

\* every websocket held anywhere in active_connections
Registered(ac) == UNION { ac[u][r] : <<u, r>> \in { p \in Users \X Rides : p[1] \in DOMAIN ac /\ p[2] \in DOMAIN ac[p[1]] } }


\* ------------------------------------------------- ConnectionManager state
\* connect, after websocket.accept(): register the websocket and the user
connect_register(reg, u, r, w) ==
  LET a1 == IF u \notin DOMAIN reg.ac THEN DictSet(reg.ac, u, EmptyDict) ELSE reg.ac
      a2 == IF r \notin DOMAIN a1[u] THEN DictSet(a1, u, DictSet(a1[u], r, {})) ELSE a1
      a3 == DictSet(a2, u, DictSet(a2[u], r, a2[u][r] \cup {w}))
      m1 == IF r \notin DOMAIN reg.rm THEN DictSet(reg.rm, r, {}) ELSE reg.rm
      m2 == DictSet(m1, r, m1[r] \cup {u})
  IN Reg(a3, m2)

\* a slip disconnect could have: the emptied containers are left in place
disconnect_keeping_empties(reg, u, r, w) ==
  LET ac2 == IF u \in DOMAIN reg.ac /\ r \in DOMAIN reg.ac[u]
             THEN DictSet(reg.ac, u, DictSet(reg.ac[u], r, reg.ac[u][r] \ {w}))
             ELSE reg.ac
      rm2 == IF r \in DOMAIN reg.rm THEN DictSet(reg.rm, r, reg.rm[r] \ {u}) ELSE reg.rm
  IN Reg(ac2, rm2)

\* disconnect(user_id, ride_id, websocket)
disconnect(reg, u, r, w) ==
  LET ac2 == IF u \in DOMAIN reg.ac /\ r \in DOMAIN reg.ac[u]
             THEN LET s == reg.ac[u][r] \ {w}                      \* discard(websocket)
                      du == IF s = {} THEN DictDel(reg.ac[u], r)
                            ELSE DictSet(reg.ac[u], r, s)
                  IN IF DOMAIN du = {} THEN DictDel(reg.ac, u)
                     ELSE DictSet(reg.ac, u, du)
             ELSE reg.ac
      \* the user leaves ride_monitors whether or not it keeps other websockets
      rm2 == IF r \in DOMAIN reg.rm
             THEN LET s == reg.rm[r] \ {u}
                  IN IF s = {} THEN DictDel(reg.rm, r) ELSE DictSet(reg.rm, r, s)
             ELSE reg.rm
  IN Reg(ac2, rm2)

\* a slip the clean-up loop could have: nothing is cleaned up
reap_nothing(reg, r, failed) == reg

\* "for user_id, rid, ws in disconnected: self.disconnect(user_id, rid, ws)";
\* failed is a set of <<user_id, websocket>>, the order does not matter
RECURSIVE reap(_, _, _)
reap(reg, r, failed) ==
  IF failed = {} THEN reg
  ELSE LET f == CHOOSE x \in failed : TRUE
       IN reap(disconnect(reg, f[1], r, f[2]), r, failed \ {f})

\* ---------------------------------------------------------- set iterators
\* A Python set iterator remembers the size of the set (used); next() raises
\* RuntimeError when the size differs.  st: "clean" (set untouched since the
\* iterator was made), "dirty" (the set changed), "broken" (the set object was
\* emptied and dropped from its dictionary, so its size is 0 for ever).
NoIter == [used |-> 0, visited |-> {}, st |-> "none"]
NewIter(s) == [used |-> Cardinality(s), visited |-> {}, st |-> "clean"]

\* what another task's change of the set does to a live iterator
Touch(it, present, before, after) ==
  IF it.st \in {"none", "broken"} THEN it
  ELSE IF ~present THEN [used |-> 0, visited |-> {}, st |-> "broken"]
  ELSE IF before # after THEN [it EXCEPT !.visited = {}, !.st = "dirty"]
  ELSE it

\* next() raises
IterRaises(it, s) == it.st = "broken" \/ Cardinality(s) # it.used
\* the elements next() can yield: after a change of equal size the iterator
\* walks a rearranged hash table and can yield any element, or none
IterCands(it, s) == s \ it.visited
IterMayStop(it, s) == IterCands(it, s) = {} \/ it.st = "dirty"


\* ------------------------------------------------------ the endpoint tasks
\* The frame of the broadcast_to_ride / broadcast_to_user call a task is in.
\* attempted, tick and disturbed are not in the code: the websockets a send was
\* started on, a bit that flips at every send, and whether another task changed
\* the registrations of the ride while this call was under way.
NoFrame ==
  [mode |-> "none", msg |-> "none", exclude |-> NoUser, outer |-> NoIter,
   inner |-> NoIter, cur |-> NoUser, target |-> "none", disconnected |-> {},
   attempted |-> {}, tick |-> 0, disturbed |-> FALSE]

\* how the task's last broadcast call ended (not in the code): res is
\* "returned" or "raised"; targets are the websockets of the call's recipients
\* that were registered when the loop ended, before the clean-up
NoLast ==
  [res |-> "none", msg |-> "none", attempted |-> {}, failed |-> {},
   targets |-> {}, disturbed |-> FALSE]

NewTask(w) ==
  [sock |-> w, pc |-> "start", token |-> "none", ride_id |-> "none", user_id |-> NoUser,
   registered |-> FALSE, outcome |-> "none", close_code |-> 0,
   fr |-> NoFrame, last |-> NoLast, handled |-> 0, pend |-> NoCoord,
   rpend |-> "none", reply |-> "none"]

\* a task and the registry, as one step leaves them
Cfg(t, reg) == [t |-> t, reg |-> reg]

Finished(t, how) ==
  [t EXCEPT !.pc = "done", !.outcome = how, !.fr = NoFrame, !.pend = NoCoord,
            !.rpend = "none", !.reply = "none"]

\* websocket.send_json(message) raises: the peer is gone, the endpoint of the
\* websocket is over (the server has closed it), or the message does
\* not serialize (the drift_alert message carries datetime objects, see
\* LocationRepository.check_drift_alerts, and json.dumps raises TypeError)
SendFails(w, msg) == ~alive[w] \/ task[w].pc = "done" \/ msg = "drift_alert"

\* the recipients' websockets, as the registry holds them
Recipients(reg, fr, t) ==
  IF fr.mode = "user" THEN Conns(reg.ac, t.user_id, t.ride_id)
  ELSE UNION { Conns(reg.ac, u, t.ride_id) : u \in Members(reg.rm, t.ride_id) \ {fr.exclude} }

\* "except Exception" of websocket_endpoint: disconnect, and the task ends
OuterExcept(t, reg) ==
  { Cfg(Finished(t, "error"),
        IF t.user_id # NoUser THEN disconnect(reg, t.user_id, t.ride_id, t.sock) ELSE reg) }


\* the task starts a send and awaits it
Await(t, w) ==
  [t EXCEPT !.pc = "send", !.fr.target = w, !.fr.attempted = @ \cup {w},
            !.fr.tick = 1 - @]

\* the broadcast call is over: remember how it went, drop the frame
Ended(t, reg, res) ==
  [t EXCEPT !.last = [res |-> res, msg |-> t.fr.msg, attempted |-> t.fr.attempted,
                      failed |-> { f[2] : f \in t.fr.disconnected },
                      targets |-> Recipients(reg, t.fr, t),
                      disturbed |-> t.fr.disturbed],
            !.fr = NoFrame]

\* an exception leaves the broadcast call (RuntimeError: Set changed size
\* during iteration).  Who catches it depends on the caller: around connect and
\* the confirmation "except Exception" of the endpoint, around the location
\* update its inner "except Exception" (an error reply follows), and nobody
\* inside the "except WebSocketDisconnect" clause.
Raised(t, reg) ==
  LET t2 == Ended(t, reg, "raised")
  IN CASE t.fr.msg \in {"user_connected", "connection_established"} -> OuterExcept(t2, reg)
       [] t.fr.msg \in {"location_update", "drift_alert"} ->
            { Cfg([t2 EXCEPT !.pc = "reply", !.rpend = "Failed to update location"], reg) }
       [] OTHER -> { Cfg(Finished(t2, "crashed"), reg) }

RECURSIVE OuterNext(_, _)
RECURSIVE InnerNext(_, _)

\* broadcast_to_user(user_id, ride_id, message)
broadcast_to_user(t, reg, msg) ==
  LET f == [NoFrame EXCEPT !.mode = "user", !.msg = msg, !.cur = t.user_id]
  IN IF t.user_id \notin DOMAIN reg.ac \/ t.ride_id \notin DOMAIN reg.ac[t.user_id]
     THEN { Cfg([Ended([t EXCEPT !.fr = f], reg, "returned") EXCEPT !.pc = "recv"], reg) }
     ELSE InnerNext([t EXCEPT !.fr = [f EXCEPT !.inner = NewIter(reg.ac[t.user_id][t.ride_id])]], reg)

\* the loop of a broadcast call is over: clean up the failed websockets, return
\* to the caller and run it up to its next await
Returns(t, reg) ==
  LET reg2 == reap(reg, t.ride_id, t.fr.disconnected)
      t2 == Ended(t, reg, "returned")
  IN CASE t.fr.msg = "user_connected" -> broadcast_to_user(t2, reg2, "connection_established")
       [] t.fr.msg = "location_update" -> { Cfg([t2 EXCEPT !.pc = "drift"], reg2) }
       [] t.fr.msg = "user_disconnected" -> { Cfg(Finished(t2, "closed"), reg2) }
       [] OTHER -> { Cfg([t2 EXCEPT !.pc = "recv"], reg2) }

\* "for websocket in ...", one round: the next websocket, or the loop's end
InnerNext(t, reg) ==
  LET s == Conns(reg.ac, t.fr.cur, t.ride_id)
      it == t.fr.inner
  IN IF it.st = "temp" THEN OuterNext(t, reg)
     ELSE IF IterRaises(it, s) THEN Raised(t, reg)
     ELSE (IF IterMayStop(it, s)
           THEN (IF t.fr.mode = "user" THEN Returns(t, reg) ELSE OuterNext(t, reg))
           ELSE {})
          \cup { Cfg(Await([t EXCEPT !.fr.inner.visited = @ \cup {w}], w), reg) : w \in IterCands(it, s) }

\* the body of "for user_id in self.ride_monitors[ride_id]" up to the inner loop
VisitUser(t, reg) ==
  IF t.fr.exclude # NoUser /\ t.fr.cur = t.fr.exclude THEN OuterNext(t, reg)
  ELSE IF t.fr.cur \in DOMAIN reg.ac
  THEN InnerNext([t EXCEPT !.fr.inner =
                    IF t.ride_id \in DOMAIN reg.ac[t.fr.cur]
                    THEN NewIter(reg.ac[t.fr.cur][t.ride_id])
                    ELSE [NoIter EXCEPT !.st = "temp"]], reg)
  ELSE OuterNext(t, reg)

\* "for user_id in self.ride_monitors[ride_id]", one round
OuterNext(t, reg) ==
  LET s == Members(reg.rm, t.ride_id)
      it == t.fr.outer
  IN IF IterRaises(it, s) THEN Raised(t, reg)
     ELSE (IF IterMayStop(it, s) THEN Returns(t, reg) ELSE {})
          \cup UNION { VisitUser([t EXCEPT !.fr.outer.visited = @ \cup {u}, !.fr.cur = u,
                                          !.fr.inner = NoIter], reg) : u \in IterCands(it, s) }

\* broadcast_to_ride(ride_id, message, exclude_user)
broadcast_to_ride(t, reg, msg, exclude) ==
  LET f == [NoFrame EXCEPT !.mode = "ride", !.msg = msg, !.exclude = exclude]
  IN IF t.ride_id \notin DOMAIN reg.rm THEN Returns([t EXCEPT !.fr = f], reg)
     ELSE OuterNext([t EXCEPT !.fr = [f EXCEPT !.outer = NewIter(reg.rm[t.ride_id])]], reg)

\* a slip the send loop could have: a failed send ends the broadcast
after_send_aborting(t, reg, failed) ==
  IF failed THEN Raised(t, reg) ELSE InnerNext(t, reg)

\* a slip the send loop could have: the failed websocket is disconnected at once
after_send_reaping(t, reg, failed) ==
  InnerNext(t, IF failed THEN disconnect(reg, t.fr.cur, t.ride_id, t.fr.target) ELSE reg)

\* the awaited send_json is over: "except Exception" notes a failure in
\* disconnected, and the loop goes on
after_send(t, reg, failed) ==
  InnerNext(IF failed THEN [t EXCEPT !.fr.disconnected = @ \cup {<<t.fr.cur, t.fr.target>>}]
            ELSE t, reg)

\* "except WebSocketDisconnect": disconnect, then tell the others
on_websocket_disconnect(t, reg) ==
  IF t.user_id # NoUser
  THEN broadcast_to_ride(t, disconnect(reg, t.user_id, t.ride_id, t.sock), "user_disconnected", NoUser)
  ELSE { Cfg(Finished(t, "closed"), reg) }

\* a live iterator of another task sees the registry change from old to new
Mark(t, old, new) ==
  IF t.pc # "send" THEN t
  ELSE LET r == t.ride_id
           u == t.fr.cur
           o2 == IF t.fr.mode = "ride"
                 THEN Touch(t.fr.outer, r \in DOMAIN new.rm, Members(old.rm, r), Members(new.rm, r))
                 ELSE t.fr.outer
           i2 == Touch(t.fr.inner, u \in DOMAIN new.ac /\ r \in DOMAIN new.ac[u],
                       Conns(old.ac, u, r), Conns(new.ac, u, r))
       IN [t EXCEPT !.fr.outer = o2, !.fr.inner = i2,
                    !.fr.disturbed = @ \/ Members(old.rm, r) # Members(new.rm, r)
                                       \/ \E x \in Users : Conns(old.ac, x, r) # Conns(new.ac, x, r)]


\* ------------------------------------------------------------ the database
RECURSIVE SumOf(_, _, _)
SumOf(P, loc, i) ==
  IF P = {} THEN 0
  ELSE LET u == CHOOSE x \in P : TRUE IN loc[u][i] + SumOf(P \ {u}, loc, i)

\* LocationRepository.check_drift_alerts: the accepted participants of the ride
\* with a known location; none for fewer than two; else those further than
\* drift_alert_distance_km from the mean position.  The coordinates here are
\* whole degrees at least a degree apart and the groups are small, so a
\* participant is more than 2 km from the mean exactly when it is not at it.
check_drift_alerts(loc, r) ==
  LET P == { u \in Users : Participants[r][u] = "accepted" /\ loc[u] # NoCoord }
      n == Cardinality(P)
  IN IF n < 2 THEN {}
     ELSE { u \in P : n * loc[u][1] # SumOf(P, loc, 1) \/ n * loc[u][2] # SumOf(P, loc, 2) }

\* a slip the participant check could have: any status of participant will do
authorize_any_status(tok, rid) ==
  IF tok \in Users /\ rid \in Rides THEN tok ELSE NoUser

\* websocket_endpoint, from the token to the participant check: the user id
\* the connection is accepted for, or NoUser when it is turned away
authorize(tok, rid) ==
  LET uid == IF tok \in Users THEN tok ELSE NoUser
  IN IF tok = "bad" THEN NoUser                         \* verify_access_token raises
     ELSE IF uid = NoUser THEN NoUser                   \* no user_id in the token
     ELSE IF rid \notin Rides THEN NoUser               \* ride not found
     ELSE IF Participants[rid][uid] # "accepted" THEN NoUser
     ELSE uid

\* ------------------------------------------------------------------ actions
\* one step of task w that leaves it and the registry as c says; the other
\* tasks' live iterators see the change
Step(w, c) ==
  /\ task' = [q \in Socks |-> IF q = w THEN c.t
                              ELSE Mark(task[q], Reg(active_connections, ride_monitors), c.reg)]
  /\ active_connections' = c.reg.ac
  /\ ride_monitors' = c.reg.rm
  /\ alive' = alive

Now == Reg(active_connections, ride_monitors)

\* the task as its next step finds it: the notes on the last broadcast go
Cur(w) == [task[w] EXCEPT !.last = NoLast]

RECURSIVE Handled(_)
Handled(S) == IF S = {} THEN 0 ELSE LET w == CHOOSE x \in S : TRUE IN task[w].handled + Handled(S \ {w})
\* the websocket was registered and is in the registry no more, its task going on
Reaped(w) ==
  /\ task[w].registered
  /\ task[w].pc # "done"
  /\ w \notin Registered(active_connections)
\* a websocket taken out of the registry may receive one message more
MsgsLeft(w) == Handled(Socks) < MaxMsgs + (IF Reaped(w) THEN 1 ELSE 0)
FaultsLeft ==
  Cardinality({ w \in Socks : ~alive[w] }) + Cardinality({ w \in Socks : task[w].outcome = "cancelled" }) < MaxFaults

\* the endpoint is called: token, ride, participant check; then connect is
\* entered and awaits websocket.accept(), or the websocket is closed
Authorize(w) ==
  /\ task[w].pc = "start"
  /\ \E a \in Attempts :
       LET uid == authorize(a[1], a[2])
           t0 == [task[w] EXCEPT !.token = a[1], !.ride_id = a[2]]
       IN IF uid = NoUser
          THEN Step(w, Cfg([Finished(t0, "rejected") EXCEPT !.close_code = WS_1008_POLICY_VIOLATION], Now))
          ELSE Step(w, Cfg([t0 EXCEPT !.user_id = uid, !.pc = "accept"], Now))
  /\ UNCHANGED <<location_updates, current_location, cache, drift_alert_rows, siovars, driftvars, svcvars>>

\* connect after websocket.accept(): register, then notify the others.  With
\* the peer gone accept may raise.
Accept(w) ==
  /\ task[w].pc = "accept"
  /\ LET t == task[w]
         ok == broadcast_to_ride([t EXCEPT !.registered = TRUE],
                                 connect_register(Now, t.user_id, t.ride_id, w),
                                 "user_connected", t.user_id)
     IN \E c \in (IF alive[w] THEN ok ELSE ok \cup OuterExcept(t, Now)) : Step(w, c)
  /\ UNCHANGED <<location_updates, current_location, cache, drift_alert_rows, siovars, driftvars, svcvars>>

\* an awaited send_json of a broadcast call is over
SendDone(w) ==
  /\ task[w].pc = "send"
  /\ \E c \in after_send(Cur(w), Now, SendFails(task[w].fr.target, task[w].fr.msg)) : Step(w, c)
  /\ UNCHANGED <<location_updates, current_location, cache, drift_alert_rows, siovars, driftvars, svcvars>>

\* receive_json returns a message, or raises
Receive(w) ==
  /\ task[w].pc = "recv"
  /\ LET t == [Cur(w) EXCEPT !.reply = "none", !.pend = NoCoord]
     IN IF ~alive[w]
        THEN \E c \in on_websocket_disconnect(t, Now) : Step(w, c)
        ELSE /\ MsgsLeft(w)
             /\ LET t1 == [t EXCEPT !.handled = @ + 1]
                IN \/ \E xy \in Coords : Step(w, Cfg([t1 EXCEPT !.pc = "persist", !.pend = xy], Now))
                   \/ Step(w, Cfg([t1 EXCEPT !.pc = "reply", !.rpend = "latitude and longitude required"], Now))
                   \/ Step(w, Cfg([t1 EXCEPT !.pc = "reply", !.rpend = "pong"], Now))
                   \/ Step(w, Cfg([t1 EXCEPT !.pc = "reply", !.rpend = "Unknown message type"], Now))
                   \/ \E c \in OuterExcept(t1, Now) : Step(w, c)      \* not JSON
  /\ UNCHANGED <<location_updates, current_location, cache, drift_alert_rows, siovars, driftvars, svcvars>>

\* the LocationUpdate row of the sample task t is handling (t.pend: latitude
\* and longitude of the message, kept while the message is handled)
Sample(t) == [user_id |-> t.user_id, latitude |-> t.pend[1], longitude |-> t.pend[2]]

\* a slip the endpoint could have: the failure is swallowed and the sample is
\* broadcast all the same
update_failed_broadcasting(t, reg) ==
  broadcast_to_ride(t, reg, "location_update", NoUser)

\* LocationService.update_user_location raises: "except Exception" of the
\* location_update branch sends the error reply; the sample is dropped
update_failed(t, reg) ==
  { Cfg([t EXCEPT !.pc = "reply", !.rpend = "Failed to update location", !.pend = NoCoord], reg) }

\* LocationService.update_user_location returns or raises; on success the
\* location_update broadcast starts
Persist(w) ==
  /\ task[w].pc = "persist"
  /\ LET t == Cur(w)
     IN \/ /\ \E c \in broadcast_to_ride(t, Now, "location_update", NoUser) : Step(w, c)
           /\ location_updates' = location_updates \cup {Sample(t)}
           /\ current_location' = [current_location EXCEPT ![t.user_id] = t.pend]
           /\ cache' = [cache EXCEPT ![t.user_id] = t.pend]
        \/ /\ \E c \in update_failed(t, Now) : Step(w, c)
           /\ UNCHANGED <<location_updates, current_location, cache>>
  /\ UNCHANGED <<drift_alert_rows, siovars, driftvars, svcvars>>

\* LocationService.check_drift_alerts returns or raises; alerts are broadcast
Drift(w) ==
  /\ task[w].pc = "drift"
  /\ LET t == Cur(w)
         alerts == check_drift_alerts(current_location, t.ride_id)
     IN \/ /\ IF alerts # {}
              THEN \E c \in broadcast_to_ride(t, Now, "drift_alert", NoUser) : Step(w, c)
              ELSE Step(w, Cfg([t EXCEPT !.pc = "recv"], Now))
           /\ drift_alert_rows' = [drift_alert_rows EXCEPT ![t.ride_id] = @ + Cardinality(alerts)]
        \/ /\ Step(w, Cfg([t EXCEPT !.pc = "reply", !.rpend = "Failed to update location"], Now))
           /\ UNCHANGED drift_alert_rows
  /\ UNCHANGED <<location_updates, current_location, cache, siovars, driftvars, svcvars>>

\* a slip the endpoint could have: the connection is given up after a reply
reply_sent_closing(t, reg, msg) ==
  OuterExcept([t EXCEPT !.reply = msg], reg)

\* the reply (pong, or an inline error) is sent: "continue", or the end of the
\* loop body, and receive_json is awaited again
reply_sent(t, reg, msg) ==
  { Cfg([t EXCEPT !.pc = "recv", !.reply = msg], reg) }

\* the awaited send_json of a reply on the task's own websocket is over; with
\* the peer gone it raises, WebSocketDisconnect or another exception
ReplyDone(w) ==
  /\ task[w].pc = "reply"
  /\ LET t == [Cur(w) EXCEPT !.rpend = "none"]
     IN IF alive[w]
        THEN \E c \in reply_sent(t, Now, task[w].rpend) : Step(w, c)
        ELSE \E c \in on_websocket_disconnect(t, Now) \cup OuterExcept(t, Now) : Step(w, c)
  /\ UNCHANGED <<location_updates, current_location, cache, drift_alert_rows, siovars, driftvars, svcvars>>

\* the task is cancelled at an await: CancelledError is no Exception, no
\* except clause of the endpoint runs
Cancel(w) ==
  /\ task[w].pc \in {"accept", "send", "recv", "reply", "persist", "drift"}
  /\ FaultsLeft
  /\ Step(w, Cfg(Finished(Cur(w), "cancelled"), Now))
  /\ UNCHANGED <<location_updates, current_location, cache, drift_alert_rows, siovars, driftvars, svcvars>>

\* the peer closes its side, or the network drops it
PeerClose(w) ==
  /\ task[w].pc \notin {"start", "done"}
  /\ alive[w]
  /\ FaultsLeft
  /\ alive' = [alive EXCEPT ![w] = FALSE]
  /\ UNCHANGED <<active_connections, ride_monitors, task, location_updates,
                 current_location, cache, drift_alert_rows, siovars, driftvars, svcvars>>

\* -------------------------------------------------------- socket_handler
\* active_rides is a dict ride id -> ride object, kept as the sequence of its
\* <<ride id, object>> items in insertion order; heap[o] is the participants
\* dict of ride object o, the sequence of its <<userId, socketId>> items in
\* insertion order.  A handler keeps the object it read (ride = active_rides[..])
\* across its awaits, whatever active_rides holds by then.
Keys(d) == { d[i][1] : i \in DOMAIN d }
Keylist(d) == [i \in DOMAIN d |-> d[i][1]]
Get(d, k) == d[CHOOSE i \in DOMAIN d : d[i][1] = k][2]
Del(d, k) == SelectSeq(d, LAMBDA e : e[1] # k)
Put(d, k, v) ==
  IF k \in Keys(d) THEN [i \in DOMAIN d |-> IF d[i][1] = k THEN <<k, v>> ELSE d[i]]
  ELSE Append(d, <<k, v>>)

NewHandler(kind, sid, rid, uid) ==
  [kind |-> kind, sid |-> sid, ride |-> rid, user |-> uid, pc |-> "run",
   obj |-> 0, keys |-> <<>>, outcome |-> "none"]

Over(h, how) == [h EXCEPT !.pc = "done", !.outcome = how, !.keys = <<>>]

SioCfg(h, ar, hp, rs) == [h |-> h, ar |-> ar, hp |-> hp, rs |-> rs]

\* sio_log (not in the code): the number of events received, the sessions that
\* disconnected, the <<ride, user>> a leave_ride event named, the
\* <<ride, user, sid>> a join_ride handler has registered, and the kinds of
\* sio.emit made: <<"participant_joined", the room held the joining session>>,
\* <<"participant_left", the handler took the user out of the participants>>
NoLog == [events |-> 0, closed |-> {}, asked |-> {}, joined |-> {}, emits |-> {}]

\* a session that has disconnected sends no more events
Open(sid) == sid \notin sio_log.closed

\* join_ride up to "await sio.enter_room"
join_ride_enter(h, ar, hp, rs) ==
  SioCfg([h EXCEPT !.pc = "enter"], ar, hp, rs \cup {<<h.sid, h.ride>>})

\* join_ride from there to "await sio.emit('participant_joined')"
join_ride_register(h, ar, hp, rs) ==
  LET fresh == h.ride \notin Keys(ar)
      hp1 == IF fresh THEN Append(hp, <<>>) ELSE hp
      ar1 == IF fresh THEN Put(ar, h.ride, Len(hp1)) ELSE ar
      o == Get(ar1, h.ride)
  IN SioCfg([h EXCEPT !.pc = "emit", !.obj = o], ar1,
            [hp1 EXCEPT ![o] = Put(@, h.user, h.sid)], rs)

\* leave_ride up to its first await
leave_ride_begin(h, ar, hp, rs) ==
  IF h.ride \in Keys(ar)
  THEN LET o == Get(ar, h.ride)
       IN SioCfg([h EXCEPT !.pc = "emit", !.obj = o], ar, [hp EXCEPT ![o] = Del(@, h.user)], rs)
  ELSE SioCfg(Over(h, "ok"), ar, hp, rs \ {<<h.sid, h.ride>>})

\* leave_ride after "await sio.emit('participant_left')": the ride goes if the
\* object the handler holds is empty; "del active_rides[ride_id]" raises
\* KeyError for a missing key, "except Exception" logs it and leave_room is
\* not reached
leave_ride_finish(h, ar, hp, rs) ==
  IF Len(hp[h.obj]) = 0
  THEN IF h.ride \in Keys(ar)
       THEN SioCfg(Over(h, "ok"), Del(ar, h.ride), hp, rs \ {<<h.sid, h.ride>>})
       ELSE SioCfg(Over(h, "error"), ar, hp, rs)
  ELSE SioCfg(Over(h, "ok"), ar, hp, rs \ {<<h.sid, h.ride>>})

\* the first participant of the dict whose socketId is sid, or NoUser
FirstOf(ps, sid) ==
  LET I == { i \in DOMAIN ps : ps[i][2] = sid }
  IN IF I = {} THEN NoUser ELSE ps[CHOOSE i \in I : \A j \in I : i <= j][1]

\* the server drops a disconnected session from its rooms once the handler
\* is over
Dropped(h, ar, hp, rs, how) ==
  SioCfg(Over(h, how), ar, hp, { x \in rs : x[1] # h.sid })

\* disconnect: "for ride_id in list(active_rides.keys())" from the ride at the
\* head of keys up to the next await; active_rides[ride_id] raises KeyError
\* for a ride that went since the list was made, and nothing catches it
RECURSIVE disconnect_loop(_, _, _, _)
disconnect_loop(h, ar, hp, rs) ==
  IF h.keys = <<>> THEN Dropped(h, ar, hp, rs, "ok")
  ELSE LET rid == Head(h.keys)
       IN IF rid \notin Keys(ar) THEN Dropped(h, ar, hp, rs, "crashed")
          ELSE LET o == Get(ar, rid)
                   u == FirstOf(hp[o], h.sid)
               IN IF u # NoUser
                  THEN SioCfg([h EXCEPT !.pc = "emit", !.ride = rid, !.user = u, !.obj = o,
                                        !.keys = Tail(@)],
                              ar, [hp EXCEPT ![o] = Del(@, u)], rs)
                  ELSE disconnect_loop([h EXCEPT !.keys = Tail(@)], ar, hp, rs)

\* disconnect after "await sio.emit('participant_left')"
disconnect_resume(h, ar, hp, rs) ==
  IF Len(hp[h.obj]) = 0
  THEN IF h.ride \in Keys(ar)
       THEN disconnect_loop(h, Del(ar, h.ride), hp, rs)
       ELSE Dropped(h, ar, hp, rs, "crashed")
  ELSE disconnect_loop(h, ar, hp, rs)

\* one step of a handler: h (if any) is the running handler that takes it,
\* c what it leaves; a handler that is over leaves the bag
SioStep(old, c, log) ==
  /\ handler' = (handler (-) old) (+) (IF c.h.pc = "done" THEN EmptyBag ELSE SetToBag({c.h}))
  /\ active_rides' = c.ar
  /\ heap' = c.hp
  /\ rooms' = c.rs
  /\ sio_log' = log
  /\ UNCHANGED <<wsvars, driftvars, svcvars>>

\* a join_ride event arrives
SioJoin(sid, rid, uid) ==
  /\ sio_log.events < MaxEvents
  /\ Open(sid)
  /\ SioStep(EmptyBag,
             join_ride_enter(NewHandler("join_ride", sid, rid, uid), active_rides, heap, rooms),
             [sio_log EXCEPT !.events = @ + 1])

\* a leave_ride event arrives
SioLeave(sid, rid, uid) ==
  /\ sio_log.events < MaxEvents
  /\ Open(sid)
  /\ SioStep(EmptyBag,
             leave_ride_begin(NewHandler("leave_ride", sid, rid, uid), active_rides, heap, rooms),
             [sio_log EXCEPT !.events = @ + 1, !.asked = @ \cup {<<rid, uid>>},
                             !.emits = IF rid \in Keys(active_rides)
                                       THEN @ \cup {<<"participant_left",
                                                      uid \in Keys(heap[Get(active_rides, rid)])>>}
                                       ELSE @])

\* the emits of a disconnect handler that goes on to c: it awaits an emit
\* only after taking a participant out
LeftBy(c) == IF c.h.pc = "emit" THEN {<<"participant_left", TRUE>>} ELSE {}

\* the session sid is gone: the disconnect event
SioDisconnect(sid) ==
  /\ sio_log.events < MaxEvents
  /\ Open(sid)
  /\ LET c == disconnect_loop([NewHandler("disconnect", sid, "none", NoUser)
                                 EXCEPT !.keys = Keylist(active_rides)],
                              active_rides, heap, rooms)
     IN SioStep(EmptyBag, c,
                [sio_log EXCEPT !.events = @ + 1, !.closed = @ \cup {sid},
                                !.emits = @ \cup LeftBy(c)])

\* a handler goes on after its await
SioResume(h) ==
  /\ h \in BagToSet(handler)
  /\ LET c == CASE h.kind = "join_ride" /\ h.pc = "enter" -> join_ride_register(h, active_rides, heap, rooms)
                 [] h.kind = "join_ride" /\ h.pc = "emit" -> SioCfg(Over(h, "ok"), active_rides, heap, rooms)
                 [] h.kind = "leave_ride" -> leave_ride_finish(h, active_rides, heap, rooms)
                 [] OTHER -> disconnect_resume(h, active_rides, heap, rooms)
     IN SioStep(SetToBag({h}), c,
                IF h.kind = "join_ride" /\ h.pc = "enter"
                THEN [sio_log EXCEPT !.joined = @ \cup {<<h.ride, h.user, h.sid>>},
                                     !.emits = @ \cup {<<"participant_joined", <<h.sid, h.ride>> \in rooms>>}]
                ELSE IF h.kind = "disconnect"
                THEN [sio_log EXCEPT !.emits = @ \cup LeftBy(c)]
                ELSE sio_log)

\* ---------------------------------------------------------- the drift check
\* LocationRepository.check_drift_alerts with its distances, for riders on one
\* meridian: there the haversine distance of two points is the arc between
\* their latitudes, R * |lat2 - lat1|, and with latitudes given in km of arc it
\* is |lat2 - lat1| km.  Rounding of the floating point arithmetic is left out.
NoRun == [runs |-> 0, alerts |-> {}, centred |-> FALSE]

RECURSIVE SumLat(_, _)
SumLat(P, lat) ==
  IF P = {} THEN 0
  ELSE LET u == CHOOSE x \in P : TRUE IN lat[u] + SumLat(P \ {u}, lat)

\* a slip the query could have: the participant's status is not looked at
participants_of_any_status(status, lat) ==
  { u \in Riders : lat[u] # NoLat }

\* the query: the users that are accepted participants of the ride and have a
\* current position
participants_of(status, lat) ==
  { u \in Riders : status[u] = "accepted" /\ lat[u] # NoLat }

\* Helpers.calculate_distance, for two points of one meridian
calculate_distance(lat1, lat2) == IF lat1 >= lat2 THEN lat1 - lat2 ELSE lat2 - lat1

\* a slip the comparison could have: the threshold itself counts as drift
beyond_threshold_or_at(distance_n, n) ==
  distance_n >= n * drift_alert_distance_km

\* "if distance > settings.drift_alert_distance_km", for the n-fold distance
beyond_threshold(distance_n, n) ==
  distance_n > n * drift_alert_distance_km

\* the loop over the participants: center_lat is SumLat / n; to stay within the
\* integers every distance is taken n-fold, n * distance(center_lat, lat) =
\* distance(SumLat, n * lat), and kept as the fraction <<n-fold distance, n>>
alerts_of(P, lat) ==
  LET n == Cardinality(P)
      distance_n(u) == calculate_distance(SumLat(P, lat), n * lat[u])
  IN { [user_id |-> u, distance |-> <<distance_n(u), n>>, latitude |-> lat[u]] :
         u \in { x \in P : beyond_threshold(distance_n(x), n) } }

\* a slip the loop could have: an alert already stored is not stored again
add_alerts_once(table, alerts) ==
  table (+) SetToBag({ a \in alerts : ~BagIn(a, table) })

\* "session.add(alert)" for every alert, made durable by flush and commit
add_alerts(table, alerts) ==
  table (+) SetToBag(alerts)

\* LocationRepository.check_drift_alerts(session, ride_id): what it returns,
\* the DriftAlert table it leaves, and whether it computed a centre
LocationRepository_check_drift_alerts(status, lat, table) ==
  LET P == participants_of(status, lat)
  IN IF Cardinality(P) < 2
     THEN [alerts |-> {}, table |-> table, centred |-> FALSE]
     ELSE LET a == alerts_of(P, lat)
          IN [alerts |-> a, table |-> add_alerts(table, a), centred |-> TRUE]

\* one call of LocationService.check_drift_alerts
DriftCheck ==
  /\ drift_run.runs < MaxRuns
  /\ LET r == LocationRepository_check_drift_alerts(rider_status, rider_latitude, drift_alerts)
     IN /\ drift_alerts' = r.table
        /\ drift_run' = [runs |-> drift_run.runs + 1, alerts |-> r.alerts, centred |-> r.centred]
  /\ UNCHANGED <<rider_status, rider_latitude, wsvars, siovars, svcvars>>

DriftIdle ==
  /\ rider_status = [u \in Riders |-> "pending"]
  /\ rider_latitude = [u \in Riders |-> NoLat]
  /\ drift_alerts = EmptyBag
  /\ drift_run = NoRun

\* ------------------------------------------------------------- the distance
\* Helpers.calculate_distance and LocationService.calculate_distance in fixed
\* point arithmetic: a number x stands for x / Unit, a product is rounded to
\* the nearest unit whatever its sign (as the floating point product is), sin
\* and cos are tables over the multiples of 15 degrees (the half differences
\* of grid coordinates), sqrt is the integer square root and atan2 the
\* greatest multiple of 15 degrees whose tangent is at most y / x.
Unit == 1000
Abs(x) == IF x >= 0 THEN x ELSE -x
Mul(x, y) ==
  LET m == (Abs(x) * Abs(y) + Unit \div 2) \div Unit
  IN IF (x >= 0) = (y >= 0) THEN m ELSE -m

SinTable == <<259, 500, 707, 866, 966, 1000>>
\* math.sin of d degrees, d a multiple of 15 in -360..360
Sin(d) ==
  LET e == IF Abs(d) > 180 THEN 360 - Abs(d) ELSE Abs(d)       \* sin(360 - x) = -sin x
      f == IF e > 90 THEN 180 - e ELSE e
      v == IF f = 0 THEN 0 ELSE SinTable[f \div 15]
      neg == (d < 0) # (Abs(d) > 180)
  IN IF neg THEN -v ELSE v
\* math.cos of d degrees, d a multiple of 15 in -90..90
Cos(d) == Sin(90 - d)

\* math.sqrt of x
Sqrt(x) == CHOOSE r \in 0..Unit : r * r <= x * Unit /\ (r + 1) * (r + 1) > x * Unit

\* math.atan2(y, x) in degrees, for y >= 0 and x >= 0 not both 0
Atan2(y, x) ==
  15 * (CHOOSE k \in 0..6 :
          /\ Sin(15 * k) * x <= Cos(15 * k) * y
          /\ \A j \in (k + 1)..6 : Sin(15 * j) * x > Cos(15 * j) * y)

\* "c = 2 * math.atan2(math.sqrt(a), math.sqrt(1 - a)); return R * c", in km
\* (c in degrees here, pi / 180 taken as 349 / 20000); math.sqrt raises
\* ValueError for a negative 1 - a
ArcKm(a) ==
  IF a > Unit THEN [raises |-> "ValueError", km |-> 0]
  ELSE [raises |-> "none", km |-> (R * (2 * Atan2(Sqrt(a), Sqrt(Unit - a))) * 349) \div 20000]

\* a slip the formula could have: the first latitude is used twice
Helpers_calculate_distance_one_latitude(lat1, lon1, lat2, lon2) ==
  LET delta_lat == lat2 - lat1
      delta_lon == lon2 - lon1
      a == Mul(Sin(delta_lat \div 2), Sin(delta_lat \div 2))
           + Mul(Mul(Cos(lat1), Cos(lat1)), Mul(Sin(delta_lon \div 2), Sin(delta_lon \div 2)))
  IN [a |-> a, d |-> ArcKm(a)]

\* Helpers.calculate_distance(lat1, lon1, lat2, lon2):
\* a = sin(delta_lat / 2) ** 2 + cos(lat1) * cos(lat2) * sin(delta_lon / 2) ** 2
Helpers_calculate_distance(lat1, lon1, lat2, lon2) ==
  LET delta_lat == lat2 - lat1
      delta_lon == lon2 - lon1
      a == Mul(Sin(delta_lat \div 2), Sin(delta_lat \div 2))
           + Mul(Mul(Cos(lat1), Cos(lat2)), Mul(Sin(delta_lon \div 2), Sin(delta_lon \div 2)))
  IN [a |-> a, d |-> ArcKm(a)]

\* LocationService.calculate_distance(lat1, lon1, lat2, lon2):
\* a = sin(d_lat / 2) * sin(d_lat / 2)
\*     + cos(lat1) * cos(lat2) * sin(d_lon / 2) * sin(d_lon / 2)
LocationService_calculate_distance(lat1, lon1, lat2, lon2) ==
  LET d_lat == lat2 - lat1
      d_lon == lon2 - lon1
      a == Mul(Sin(d_lat \div 2), Sin(d_lat \div 2))
           + Mul(Mul(Mul(Cos(lat1), Cos(lat2)), Sin(d_lon \div 2)), Sin(d_lon \div 2))
  IN [a |-> a, d |-> ArcKm(a)]

NoMeasure == [done |-> FALSE]

\* both functions are called on the two points, in both orders
Measure ==
  /\ ~measured.done
  /\ LET p == points
     IN measured' = [done |-> TRUE,
                     helpers_ab |-> Helpers_calculate_distance(p[1], p[2], p[3], p[4]),
                     helpers_ba |-> Helpers_calculate_distance(p[3], p[4], p[1], p[2]),
                     service_ab |-> LocationService_calculate_distance(p[1], p[2], p[3], p[4]),
                     service_ba |-> LocationService_calculate_distance(p[3], p[4], p[1], p[2])]
  /\ UNCHANGED <<points, wsvars, siovars, driftvars, ridevars, cachevars, authvars>>

GeoIdle ==
  /\ points = <<0, 0, 0, 0>>
  /\ measured = NoMeasure

\* ------------------------------------------------------------------ rides
\* RideRepository on one ride.  The ride stays "scheduled"; every method runs
\* in a session of its own, and what it has flushed is committed by its caller
\* in RideService.
NoRide == [created_by |-> NoUser, max_participants |-> 0, is_public |-> FALSE]

\* "select(func.count(RideParticipant.id)) ... status == ACCEPTED"
get_participant_count(rows) == Cardinality({ u \in Users : rows[u] = "accepted" })

\* RideRepository.create: the ride, and its creator as accepted participant
RideCreate(by, seats, public) ==
  /\ ride = NoRide
  /\ ride' = [created_by |-> by, max_participants |-> seats, is_public |-> public]
  /\ ride_participants' = [ride_participants EXCEPT ![by] = "accepted"]
  /\ UNCHANGED <<joining, wsvars, siovars, driftvars, geovars, cachevars, authvars>>

\* RideRepository.update by the creator: setattr of every value given, here
\* max_participants
RideUpdate(by, seats) ==
  /\ ride # NoRide
  /\ ride.created_by = by
  /\ ride' = [ride EXCEPT !.max_participants = seats]
  /\ UNCHANGED <<ride_participants, joining, wsvars, siovars, driftvars, geovars, cachevars, authvars>>

\* RideRepository.join_ride, its checks: the ride exists, is not full, and the
\* user is no participant of it yet
join_ride_checks(r, rows, u) ==
  /\ r # NoRide
  /\ get_participant_count(rows) < r.max_participants
  /\ rows[u] = "none"

\* join_ride up to session.add: the checks are made (a join_ride that fails
\* one returns None and changes nothing)
RideJoinCheck(u) ==
  /\ ~joining[u]
  /\ join_ride_checks(ride, ride_participants, u)
  /\ joining' = [joining EXCEPT ![u] = TRUE]
  /\ UNCHANGED <<ride, ride_participants, wsvars, siovars, driftvars, geovars, cachevars, authvars>>

\* join_ride from session.add on: the row is added, accepted for a public
\* ride and pending otherwise; the unique constraint on (ride_id, user_id)
\* refuses a second row of the user
RideJoinAdd(u) ==
  /\ joining[u]
  /\ joining' = [joining EXCEPT ![u] = FALSE]
  /\ ride_participants' =
       IF ride_participants[u] = "none"
       THEN [ride_participants EXCEPT ![u] = IF ride.is_public THEN "accepted" ELSE "pending"]
       ELSE ride_participants
  /\ UNCHANGED <<ride, wsvars, siovars, driftvars, geovars, cachevars, authvars>>

\* RideRepository.invite_users by the creator, one user: a pending row unless
\* the user has a row
RideInvite(by, u) ==
  /\ ride # NoRide
  /\ ride.created_by = by
  /\ ride_participants[u] = "none"
  /\ ride_participants' = [ride_participants EXCEPT ![u] = "pending"]
  /\ UNCHANGED <<ride, joining, wsvars, siovars, driftvars, geovars, cachevars, authvars>>

\* RideRepository.update_participant_status by the creator:
\* "participant.status = status"
RideSetStatus(by, u, status) ==
  /\ ride # NoRide
  /\ ride.created_by = by
  /\ ride_participants[u] # "none"
  /\ ride_participants' = [ride_participants EXCEPT ![u] = status]
  /\ UNCHANGED <<ride, joining, wsvars, siovars, driftvars, geovars, cachevars, authvars>>

RideIdle ==
  /\ ride = NoRide
  /\ ride_participants = [u \in Users |-> "none"]
  /\ joining = [u \in Users |-> FALSE]

\* ---------------------------------------------- the participants' locations
\* LocationService.get_ride_participant_locations on the one ride, with the
\* redis entry ride_locations:<ride id> (redis connected).
NoEntry == [held |-> FALSE, value |-> {}]

\* loc_log (not in the code): the caller, the error and the locations of the
\* last call, and the users a call has given a location to
NoAnswer == [user_id |-> NoUser, error |-> "none", locations |-> {}, served |-> {}]

\* LocationRepository.get_ride_participant_locations, its query: the accepted
\* participants with a current position; last_location_update is written
\* together with the position (create_location_update) and is a datetime
participant_locations(rows, loc) ==
  { [id |-> u, latitude |-> loc[u][1], longitude |-> loc[u][2],
     last_location_update |-> "datetime"] :
       u \in { x \in Users : rows[x] = "accepted" /\ loc[x] # NoCoord } }

\* json.dumps(value): a datetime is not JSON serializable, TypeError
json_dumps_raises(value) == \E l \in value : l.last_location_update = "datetime"

\* a slip the cache could have: every value is stored, whatever it holds
redis_set_anything(entry, value) ==
  [held |-> TRUE, value |-> value]

\* RedisClient.set(key, value, expire_seconds): "except Exception" logs a
\* value that does not serialize and nothing is stored
redis_set(entry, value) ==
  IF json_dumps_raises(value) THEN entry ELSE [held |-> TRUE, value |-> value]

\* LocationService.get_ride_participant_locations(session, ride_id, user_id):
\* the cached value if there is one and it is truthy (an empty list is not);
\* else the repository's answer, ValueError (BadRequestError) for a user with
\* no RideParticipant row, and the answer is cached
get_ride_participant_locations(u, rows, loc, entry) ==
  IF entry.held /\ entry.value # {}
  THEN [error |-> "none", locations |-> entry.value, entry |-> entry]
  ELSE IF rows[u] = "none"
  THEN [error |-> "BadRequestError", locations |-> {}, entry |-> entry]
  ELSE LET locations == participant_locations(rows, loc)
       IN [error |-> "none", locations |-> locations, entry |-> redis_set(entry, locations)]

\* user u asks for the locations of the ride's participants
LocRequest(u) ==
  /\ LET r == get_ride_participant_locations(u, ride_participants, current_location, ride_locations)
     IN /\ ride_locations' = r.entry
        /\ loc_log' = [user_id |-> u, error |-> r.error, locations |-> r.locations,
                       served |-> IF r.locations # {} THEN loc_log.served \cup {u}
                                  ELSE loc_log.served]
  /\ UNCHANGED <<wsvars, siovars, driftvars, geovars, ridevars, authvars>>

\* the 30 seconds of the entry are over
LocExpire ==
  /\ ride_locations.held
  /\ ride_locations' = NoEntry
  /\ UNCHANGED <<loc_log, wsvars, siovars, driftvars, geovars, ridevars, authvars>>

\* LocationRepository.create_location_update for user u: the User row gets
\* the position and last_location_update
LocUpdate(u, xy) ==
  /\ current_location[u] # xy
  /\ current_location' = [current_location EXCEPT ![u] = xy]
  /\ UNCHANGED <<active_connections, ride_monitors, task, alive, location_updates,
                 cache, drift_alert_rows, siovars, driftvars, svcvars>>

CacheIdle ==
  /\ ride_locations = NoEntry
  /\ loc_log = NoAnswer

\* ----------------------------------------------------------- refresh tokens
\* UserService.login_user, refresh_tokens, logout_user and change_password on
\* User.refresh_token.  Passwords are right and the users active.
NoToken == <<>>

\* Helpers.generate_tokens(payload): the refresh token is the HS256 signature
\* over the user's payload with "iat" and "exp", which jwt.encode writes in
\* whole seconds: it is a function of the user and the second it is made in
generate_tokens(u, second) == <<u, second>>

\* UserService.login_user: a new token is stored
AuthLogin(u) ==
  /\ refresh_token' = [refresh_token EXCEPT ![u] = generate_tokens(u, now)]
  /\ UNCHANGED <<now, refreshing, spent, wsvars, siovars, driftvars, geovars, ridevars, cachevars>>

\* UserService.refresh_tokens(t) up to "await set_refresh_token": the token
\* verifies, find_by_refresh_token finds its user (UnauthorizedError if there
\* is none, and nothing changes) and the new tokens are generated
AuthRefreshFind(t) ==
  /\ \E u \in Users :
       /\ refresh_token[u] = t
       /\ refreshing' = refreshing \cup {[user_id |-> u, token |-> t, new |-> generate_tokens(u, now)]}
  /\ UNCHANGED <<refresh_token, now, spent, wsvars, siovars, driftvars, geovars, ridevars, cachevars>>

\* refresh_tokens from set_refresh_token on: the new token is stored and
\* returned, the call has succeeded
AuthRefreshSet(c) ==
  /\ c \in refreshing
  /\ refreshing' = refreshing \ {c}
  /\ refresh_token' = [refresh_token EXCEPT ![c.user_id] = c.new]
  /\ spent' = spent \cup {c.token}
  /\ UNCHANGED <<now, wsvars, siovars, driftvars, geovars, ridevars, cachevars>>

\* UserService.logout_user, and change_password after the password check:
\* clear_refresh_token; the token the user held is revoked
AuthRevoke(u) ==
  /\ refresh_token[u] # NoToken
  /\ refresh_token' = [refresh_token EXCEPT ![u] = NoToken]
  /\ spent' = spent \cup {refresh_token[u]}
  /\ UNCHANGED <<now, refreshing, wsvars, siovars, driftvars, geovars, ridevars, cachevars>>

\* a second passes
Tick ==
  /\ now < MaxClock
  /\ now' = now + 1
  /\ UNCHANGED <<refresh_token, refreshing, spent, wsvars, siovars, driftvars, geovars, ridevars, cachevars>>

AuthIdle ==
  /\ refresh_token = [u \in Users |-> NoToken]
  /\ now = 0
  /\ refreshing = {}
  /\ spent = {}

SvcIdle == GeoIdle /\ RideIdle /\ CacheIdle /\ AuthIdle

SioIdle ==
  /\ active_rides = <<>>
  /\ heap = <<>>
  /\ rooms = {}
  /\ handler = EmptyBag
  /\ sio_log = NoLog

WsInit ==
  /\ active_connections = EmptyDict
  /\ ride_monitors = EmptyDict
  /\ task = [w \in Socks |-> NewTask(w)]
  /\ alive = [w \in Socks |-> TRUE]
  /\ location_updates = {}
  /\ current_location = [u \in Users |-> IF u = "u2" THEN <<1, 0>> ELSE NoCoord]
  /\ cache = [u \in Users |-> NoCoord]
  /\ drift_alert_rows = [r \in Rides |-> 0]

Init == WsInit /\ SioIdle /\ DriftIdle /\ SvcIdle

Next ==
  \E w \in Socks :
    \/ Authorize(w)
    \/ Accept(w)
    \/ SendDone(w)
    \/ Receive(w)
    \/ Persist(w)
    \/ Drift(w)
    \/ ReplyDone(w)
    \/ Cancel(w)
    \/ PeerClose(w)

Spec == Init /\ [][Next]_vars

WsIdle ==
  /\ active_connections = EmptyDict
  /\ ride_monitors = EmptyDict
  /\ task = [w \in Socks |-> NewTask(w)]
  /\ alive = [w \in Socks |-> TRUE]
  /\ location_updates = {}
  /\ current_location = [u \in Users |-> NoCoord]
  /\ cache = [u \in Users |-> NoCoord]
  /\ drift_alert_rows = [r \in Rides |-> 0]

InitSio == WsIdle /\ SioIdle /\ DriftIdle /\ SvcIdle

NextSio ==
  \/ \E sid \in Sids, rid \in Rides, uid \in Users : SioJoin(sid, rid, uid)
  \/ \E sid \in Sids, rid \in Rides, uid \in Users : SioLeave(sid, rid, uid)
  \/ \E sid \in Sids : SioDisconnect(sid)
  \/ \E h \in BagToSet(handler) : SioResume(h)

SpecSio == InitSio /\ [][NextSio]_vars

\* the drift check on its own: any riders, any positions, run again and again
InitDrift ==
  /\ WsIdle
  /\ SioIdle
  /\ rider_status \in [Riders -> {"accepted", "pending"}]
  /\ rider_latitude \in [Riders -> Lats \cup {NoLat}]
  /\ drift_alerts = EmptyBag
  /\ drift_run = NoRun
  /\ SvcIdle

NextDrift == DriftCheck

SpecDrift == InitDrift /\ [][NextDrift]_vars

\* the distance functions on their own: any two points of the grid
InitGeo ==
  /\ WsIdle
  /\ SioIdle
  /\ DriftIdle
  /\ points \in GridLats \X GridLons \X GridLats \X GridLons
  /\ measured = NoMeasure
  /\ RideIdle
  /\ CacheIdle
  /\ AuthIdle

NextGeo == Measure

SpecGeo == InitGeo /\ [][NextGeo]_vars

\* the rides on their own
InitRide == WsIdle /\ SioIdle /\ DriftIdle /\ SvcIdle

NextRide ==
  \/ \E by \in Users, seats \in 1..MaxSeats, public \in BOOLEAN : RideCreate(by, seats, public)
  \/ \E by \in Users, seats \in 1..MaxSeats : RideUpdate(by, seats)
  \/ \E u \in Users : RideJoinCheck(u)
  \/ \E u \in Users : RideJoinAdd(u)
  \/ \E by \in Users, u \in Users : RideInvite(by, u)
  \/ \E by \in Users, u \in Users, status \in {"pending", "accepted", "rejected"} : RideSetStatus(by, u, status)

SpecRide == InitRide /\ [][NextRide]_vars

\* the participants' locations on their own: a ride of u1, with u2 any kind
\* of participant or none
InitLoc ==
  /\ WsIdle
  /\ SioIdle
  /\ DriftIdle
  /\ GeoIdle
  /\ CacheIdle
  /\ AuthIdle
  /\ ride = [created_by |-> "u1", max_participants |-> MaxSeats, is_public |-> FALSE]
  /\ ride_participants \in { rows \in [Users -> {"none", "pending", "accepted"}] : rows["u1"] = "accepted" }
  /\ joining = [u \in Users |-> FALSE]

NextLoc ==
  \/ \E u \in Users : LocRequest(u)
  \/ LocExpire
  \/ \E u \in Users, xy \in {<<0, 0>>, <<1, 0>>} : LocUpdate(u, xy)

SpecLoc == InitLoc /\ [][NextLoc]_vars

\* the refresh tokens on their own
InitAuth == WsIdle /\ SioIdle /\ DriftIdle /\ SvcIdle

NextAuth ==
  \/ \E u \in Users : AuthLogin(u)
  \/ \E u \in Users, k \in 0..MaxClock : AuthRefreshFind(generate_tokens(u, k))
  \/ \E c \in refreshing : AuthRefreshSet(c)
  \/ \E u \in Users : AuthRevoke(u)
  \/ Tick

SpecAuth == InitAuth /\ [][NextAuth]_vars

\* ------------------------------------------------------------------ claims
ConnsOfRide(r) == UNION { Conns(active_connections, u, r) : u \in Users }

\* C1: a user is in a ride's membership set (ride_monitors[ride], what
\* get_active_users returns) if and only if it has at least one registered
\* connection for that ride
C1_MemberIffConnected ==
  \A u \in Users, r \in Rides :
    (u \in get_active_users(ride_monitors, r)) <=> (Conns(active_connections, u, r) # {})

\* C2: get_connection_count(ride) is the number of registered connections of
\* the ride (2 after two connects of one user), not the number of users
C2_CountIsConnections ==
  \A r \in Rides : get_connection_count(ride_monitors, r) = Cardinality(ConnsOfRide(r))

\* C3: no registry map ever holds an empty set or an empty dict, and a ride
\* with no registered connection has left nothing behind: count 0, no active
\* users, no key in ride_monitors, no key in any user's active_connections
C3_NoResidue ==
  /\ \A r \in DOMAIN ride_monitors : ride_monitors[r] # {}
  /\ \A u \in DOMAIN active_connections :
       /\ DOMAIN active_connections[u] # {}
       /\ \A r \in DOMAIN active_connections[u] : active_connections[u][r] # {}
  /\ \A r \in Rides :
       ConnsOfRide(r) = {} =>
         /\ get_connection_count(ride_monitors, r) = 0
         /\ get_active_users(ride_monitors, r) = {}
         /\ r \notin DOMAIN ride_monitors
         /\ \A u \in DOMAIN active_connections : r \notin DOMAIN active_connections[u]

\* a websocket was registered, its peer closed, its disconnect has run and
\* its ride has no connection left
C3_LastOneGone ==
  \E w \in Socks :
    /\ task[w].registered
    /\ task[w].outcome = "closed"
    /\ ConnsOfRide(task[w].ride_id) = {}

\* C4: a send failure does not stop a broadcast_to_ride: the call raises only
\* when another task changed the ride's registrations under it, never for a
\* failed send, and when it returns undisturbed a send was attempted on every
\* registered connection of every member but the excluded one
C4_FailedSendDoesNotStopBroadcast ==
  \A w \in Socks :
    LET l == task[w].last
    IN /\ l.res = "raised" => l.disturbed
       /\ (l.res = "returned" /\ ~l.disturbed) => l.targets \subseteq l.attempted

\* a broadcast_to_ride of a message that serializes returned with one send
\* failed and another one made
C4_OneDeadOneLive ==
  \E w \in Socks :
    LET l == task[w].last
    IN /\ l.res = "returned"
       /\ l.msg \in {"location_update", "user_disconnected", "user_connected"}
       /\ l.failed # {}
       /\ l.attempted \ l.failed # {}

\* the failed sends of the broadcast call w is in, the one just awaited included
FailedSoFar(w) ==
  { f[2] : f \in task[w].fr.disconnected }
    \cup (IF SendFails(task[w].fr.target, task[w].fr.msg) THEN {task[w].fr.target} ELSE {})

\* the step is one of task w, taken inside a broadcast call
StepsInBroadcast(w) ==
  /\ task[w].pc = "send"
  /\ \/ task'[w].pc # "send"
     \/ task'[w].fr.tick # task[w].fr.tick
     \/ task'[w].fr.msg # task[w].fr.msg

\* C5: a connection whose send failed during broadcast_to_ride or
\* broadcast_to_user is taken out of the registry by that call only in the step
\* in which the call returns, all sends made, and it is in no registry
\* structure once the call has returned
C5_FailedReapedAfterTheSends ==
  /\ [](\A w \in Socks : task[w].last.res = "returned" =>
                           task[w].last.failed \cap Registered(active_connections) = {})
  /\ [][\A w \in Socks : StepsInBroadcast(w) =>
          \A x \in FailedSoFar(w) \ {w} :
            (x \in Registered(active_connections) /\ x \notin Registered(active_connections')) =>
              /\ task'[w].last.res = "returned"
              /\ x \in task'[w].last.failed
              /\ (~task'[w].last.disturbed => task'[w].last.targets \subseteq task'[w].last.attempted)]_vars

\* a broadcast is part-way: a send has failed, the failed websocket is still
\* registered, and the next send is awaited
C5_FailureNotedSendsGoOn ==
  \E w \in Socks :
    /\ task[w].pc = "send"
    /\ task[w].fr.disconnected # {}
    /\ \A f \in task[w].fr.disconnected : f[2] \in Registered(active_connections)
    /\ task[w].fr.target \notin { f[2] : f \in task[w].fr.disconnected }

\* C6: no connect or disconnect changes a ride's membership while a
\* broadcast_to_ride of that ride is part-way through its sends, and no
\* broadcast fails because of one
C6_NoChangeUnderBroadcast ==
  \A w \in Socks :
    /\ ~(task[w].fr.mode = "ride" /\ task[w].fr.disturbed)
    /\ ~(task[w].last.res = "raised" /\ task[w].last.msg # "connection_established")

\* C7: once all Socket.IO handlers have finished, every user that joined a ride
\* and was never asked out of it (no leave_ride named it, no session it joined
\* with disconnected) is a participant of the ride, and the ride has its entry
C7_JoinedStaysMember ==
  handler = EmptyBag =>
    \A j \in sio_log.joined :
      ( /\ <<j[1], j[2]>> \notin sio_log.asked
        /\ \A k \in sio_log.joined : (k[1] = j[1] /\ k[2] = j[2]) => k[3] \notin sio_log.closed )
      => /\ j[1] \in Keys(active_rides)
         /\ j[2] \in Keys(heap[Get(active_rides, j[1])])

\* C8: when the task of a websocket that was registered is over, whatever ended
\* it, the websocket is in no registry structure
C8_NothingOutlivesTheTask ==
  \A w \in Socks :
    (task[w].pc = "done" /\ task[w].registered) => w \notin Registered(active_connections)

\* what the endpoint is to accept: a token of a user who is an accepted
\* participant of a ride of the database
Acceptable(tok, rid) ==
  /\ tok \in Users
  /\ rid \in Rides
  /\ Participants[rid][tok] = "accepted"

\* C9: a connection whose token or ride does not pass is closed with the
\* policy-violation code, connect is never called for it, it never enters the
\* registry, and the step that turns it away leaves the registry as it was
C9_RejectedLeavesRegistryAlone ==
  /\ [](\A w \in Socks :
          (task[w].pc # "start" /\ ~Acceptable(task[w].token, task[w].ride_id)) =>
            /\ task[w].pc = "done"
            /\ task[w].outcome = "rejected"
            /\ task[w].close_code = WS_1008_POLICY_VIOLATION
            /\ ~task[w].registered
            /\ w \notin Registered(active_connections))
  /\ [][\A w \in Socks :
          (task[w].pc = "start" /\ task'[w].pc # "start"
             /\ ~Acceptable(task'[w].token, task'[w].ride_id)) =>
            /\ active_connections' = active_connections
            /\ ride_monitors' = ride_monitors]_vars

\* a user with a pending invitation was turned away from a ride that has a
\* connection, whose count is still 1
C9_PendingUserTurnedAway ==
  \E w \in Socks :
    /\ task[w].outcome = "rejected"
    /\ task[w].token = "u2"
    /\ task[w].ride_id = "r2"
    /\ get_connection_count(ride_monitors, "r2") = 1

InRange(xy) == xy[1] >= -90 /\ xy[1] <= 90 /\ xy[2] >= -180 /\ xy[2] <= 180

\* C10: a location_update out of range (latitude outside [-90,90] or longitude
\* outside [-180,180]) has no effect: no such sample is persisted, cached or
\* made a user's current location
C10_OutOfRangeHasNoEffect ==
  /\ \A row \in location_updates : InRange(<<row.latitude, row.longitude>>)
  /\ \A u \in Users :
       /\ cache[u] # NoCoord => InRange(cache[u])
       /\ current_location[u] # NoCoord => InRange(current_location[u])

\* the step is one of task w
Acts(w) ==
  task'[w] # Mark(task[w], Now, Reg(active_connections', ride_monitors'))

\* C11: when persisting a location sample fails nothing is broadcast for it:
\* a task is in (or just out of) a location_update or drift_alert broadcast, or
\* at the drift check, only with its sample stored; the step in which
\* persisting fails leaves the registry as it was, starts no send and queues
\* the error reply on the sender's connection
C11_FailedPersistNoBroadcast ==
  /\ [](\A w \in Socks :
          ( \/ task[w].fr.msg \in {"location_update", "drift_alert"}
            \/ task[w].last.msg \in {"location_update", "drift_alert"}
            \/ task[w].pc = "drift" )
          => /\ task[w].pend # NoCoord
             /\ Sample(task[w]) \in location_updates)
  /\ [][\A w \in Socks :
          (task[w].pc = "persist" /\ Acts(w) /\ task'[w].outcome # "cancelled"
             /\ Sample(task[w]) \notin location_updates') =>
            /\ task'[w].pc = "reply"
            /\ task'[w].rpend = "Failed to update location"
            /\ task'[w].fr = NoFrame
            /\ active_connections' = active_connections
            /\ ride_monitors' = ride_monitors]_vars

\* persisting failed for a sender whose ride has another member connected: the
\* sender has its error reply, nothing is stored and nobody was sent anything
C11_SenderToldNothingSent ==
  \E w \in Socks :
    /\ task[w].pc = "recv"
    /\ task[w].reply = "Failed to update location"
    /\ location_updates = {}
    /\ Cardinality(Members(ride_monitors, task[w].ride_id)) = 2

\* C12: a failure of the drift check is swallowed: the step in which
\* check_drift_alerts raises queues no error reply for the sender of the update
C12_DriftFailureNotReported ==
  [][\A w \in Socks :
       (task[w].pc = "drift" /\ Acts(w)) => task'[w].rpend # "Failed to update location"]_vars

\* C13: a drift_alert broadcast (here: for a sample in range) that has returned
\* has taken no live connection out of the registry: every websocket it noted
\* as failed had lost its peer or its endpoint
C13_DriftAlertKeepsLiveConnections ==
  \A w \in Socks :
    (task[w].last.msg = "drift_alert" /\ task[w].last.res = "returned" /\ InRange(task[w].pend)) =>
      \A x \in task[w].last.failed : ~alive[x] \/ task[x].pc = "done"

\* C14: a location_update broadcast that returns undisturbed has attempted a
\* send on every connection registered for the ride, the sender's own included
C14_LocationUpdateReachesAll ==
  [][\A w \in Socks :
       ( /\ Acts(w)
         /\ task'[w].last.msg = "location_update"
         /\ task'[w].last.res = "returned"
         /\ ~task'[w].last.disturbed )
       => UNION { Conns(active_connections', u, task[w].ride_id) : u \in Users }
            \subseteq task'[w].last.attempted]_vars

\* C15: whenever a step takes a user out of a ride's membership and members
\* remain, the task that took the step has started (or made) the
\* user_disconnected broadcast to them
C15_DepartureAnnounced ==
  [][\A r \in Rides, u \in Users :
       ( /\ u \in Members(ride_monitors, r)
         /\ u \notin Members(ride_monitors', r)
         /\ Members(ride_monitors', r) # {} )
       => \E w \in Socks :
            /\ Acts(w)
            /\ \/ task'[w].fr.msg = "user_disconnected"
               \/ task'[w].last.msg = "user_disconnected"]_vars

\* C16: the join event of a user is delivered to no connection of that user:
\* no participant_joined is emitted to a room that holds the joining session
C16_JoinEventNotToJoiner ==
  <<"participant_joined", TRUE>> \notin sio_log.emits

\* C17: a departure event is emitted only by a handler that took the user out
\* of the ride's participants
C17_DepartureOnlyOnRemoval ==
  <<"participant_left", FALSE>> \notin sio_log.emits

\* the riders the drift check is to look at: accepted, with a known position
Located == { u \in Riders : rider_status[u] = "accepted" /\ rider_latitude[u] # NoLat }

\* C18: with zero or one accepted participant of known position
\* check_drift_alerts returns no alert, stores no DriftAlert and computes no
\* centre; a centre is computed only over two or more of them
C18_FewerThanTwoNoAlerts ==
  drift_run.runs > 0 =>
    /\ Cardinality(Located) < 2 =>
          /\ drift_run.alerts = {}
          /\ drift_alerts = EmptyBag
    /\ drift_run.centred <=> Cardinality(Located) >= 2

\* the check has run on one accepted rider of known position and a rider not
\* accepted who is 5 km from it
C18_OneAcceptedOnePending ==
  /\ drift_run.runs > 0
  /\ Cardinality(Located) = 1
  /\ \E u \in Located, v \in Riders :
       /\ rider_status[v] = "pending"
       /\ rider_latitude[v] # NoLat
       /\ rider_latitude[v] - rider_latitude[u] = 5

\* the sum over the located riders v of (position of u - position of v): the
\* number of located riders times the offset of u from their centroid
Offset(u) ==
  LET d(v) == IF v \in Located THEN rider_latitude[u] - rider_latitude[v] ELSE 0
  IN d("p1") + d("p2") + d("p3")

\* C19: check_drift_alerts returns an alert for exactly the located accepted
\* riders whose distance from the centroid is strictly more than the 2 km
\* threshold, and the alert carries that distance
C19_AlertIffBeyondThreshold ==
  (drift_run.runs > 0 /\ Cardinality(Located) >= 2) =>
    LET n == Cardinality(Located)
    IN /\ { a.user_id : a \in drift_run.alerts } =
            { u \in Located : Offset(u) > 2 * n \/ Offset(u) < -(2 * n) }
       /\ \A a \in drift_run.alerts :
            /\ a.distance[2] = n
            /\ a.distance[1] \in {Offset(a.user_id), -Offset(a.user_id)}
            /\ a.latitude = rider_latitude[a.user_id]
       /\ Cardinality(drift_run.alerts) = Cardinality({ a.user_id : a \in drift_run.alerts })

\* three riders 1 km, exactly 2 km and 3 km from their centroid: the check has
\* returned one alert, for the one at 3 km
C19_OneTwoThreeKm ==
  /\ drift_run.runs > 0
  /\ Located = Riders
  /\ \E u, v, x \in Riders :
       /\ Offset(u) = -3 /\ Offset(v) = -6 /\ Offset(x) = 9
       /\ { a.user_id : a \in drift_run.alerts } = {x}

\* C20: alerts are never deduplicated: every run stores one new DriftAlert per
\* alert it returns and leaves the stored ones as they are, and a run on
\* unchanged positions returns what the run before it returned
C20_AlertsNeverDeduplicated ==
  [][drift_run'.runs = drift_run.runs + 1 =>
       /\ drift_alerts' = drift_alerts (+) SetToBag(drift_run'.alerts)
       /\ BagCardinality(drift_alerts') = BagCardinality(drift_alerts) + Cardinality(drift_run'.alerts)
       /\ drift_alerts \sqsubseteq drift_alerts'
       /\ (drift_run.runs > 0 /\ rider_latitude' = rider_latitude /\ rider_status' = rider_status)
             => drift_run'.alerts = drift_run.alerts]_vars

\* two runs on the same positions have returned alerts, and every alert is
\* stored twice
C20_TwoRunsTwiceTheRows ==
  /\ drift_run.runs = 2
  /\ drift_run.alerts # {}
  /\ BagCardinality(drift_alerts) = 2 * Cardinality(drift_run.alerts)
  /\ \A a \in drift_run.alerts : CopiesIn(a, drift_alerts) = 2

\* the stores a message can reach: the registry, the samples, the alerts
Stores == <<active_connections, ride_monitors, location_updates, current_location,
            cache, drift_alert_rows>>

\* C21: handling a ping or a message of unrecognized type only sends one reply
\* on the same connection: the step that takes the message and the step in
\* which the reply is sent (the peer still there) leave the registry, the
\* samples and the alerts as they were and start no broadcast, and after the
\* reply the task waits for the next message; and a waiting task ends only
\* when its peer is gone, on a message, or by being cancelled, never for want
\* of a ping
C21_PingOnlyReplies ==
  [][\A w \in Socks :
       /\ (task[w].pc = "recv" /\ Acts(w) /\ task'[w].rpend \in {"pong", "Unknown message type"}) =>
            /\ task'[w].pc = "reply"
            /\ task'[w].fr = NoFrame
            /\ Stores' = Stores
       /\ ( /\ task[w].pc = "reply" /\ task[w].rpend \in {"pong", "Unknown message type"}
            /\ Acts(w) /\ alive[w] /\ task'[w].outcome # "cancelled" ) =>
            /\ task'[w].pc = "recv"
            /\ task'[w].reply = task[w].rpend
            /\ task'[w].fr = NoFrame
            /\ task'[w].last = NoLast
            /\ Stores' = Stores
       /\ (task[w].pc = "recv" /\ Acts(w) /\ task'[w].pc = "done") =>
            \/ ~alive[w]
            \/ task'[w].handled = task[w].handled + 1
            \/ task'[w].outcome = "cancelled"]_vars

\* a connected user has its pong, is still registered and waits for the next
\* message; nothing was stored
C21_PongAndStillOpen ==
  \E w \in Socks :
    /\ task[w].pc = "recv"
    /\ task[w].reply = "pong"
    /\ alive[w]
    /\ w \in Conns(active_connections, task[w].user_id, task[w].ride_id)
    /\ location_updates = {}

\* C22: a connection reaped from the registry is closed, its endpoint takes no
\* more inbound messages: the task of a websocket that was registered and is
\* out of the registry, its peer still there, receives no message
C22_ReapedTakesNoMessage ==
  [][\A w \in Socks :
       (task[w].pc = "recv" /\ Acts(w) /\ Reaped(w) /\ alive[w]) =>
         task'[w].handled = task[w].handled]_vars

\* C23: the distance is symmetric, calculate_distance(a, b) =
\* calculate_distance(b, a) for all points a and b, in both implementations
\* (the haversine term and the kilometres, or the error, are the same)
C23_DistanceSymmetric ==
  measured.done =>
    /\ measured.helpers_ab = measured.helpers_ba
    /\ measured.service_ab = measured.service_ba

\* two points of different latitude and longitude, some thousand km apart,
\* have been measured both ways by both functions
C23_FarApartBothWays ==
  /\ measured.done
  /\ points[1] # points[3] /\ points[2] # points[4]
  /\ Abs(points[1]) # Abs(points[3])
  /\ measured.helpers_ab.d.raises = "none"
  /\ measured.helpers_ab.d.km > 1000
  /\ measured.service_ba.d.km = measured.helpers_ab.d.km

\* the step is one in which task w calls manager.disconnect for its own
\* websocket: in "except Exception", or in "except WebSocketDisconnect"
DisconnectsItself(w) ==
  /\ Acts(w)
  /\ task[w].user_id # NoUser
  /\ task[w].fr.msg # "user_disconnected"
  /\ \/ task'[w].outcome \in {"error", "closed"}
     \/ task'[w].fr.msg = "user_disconnected"

\* C24: disconnect is a no-op for a websocket that is not registered (never
\* registered, or removed before): the step in which a task calls it for such
\* a websocket leaves active_connections and ride_monitors as they were
C24_DisconnectOfUnregisteredNoOp ==
  [][\A w \in Socks :
       (DisconnectsItself(w) /\ w \notin Registered(active_connections)) =>
         /\ active_connections' = active_connections
         /\ ride_monitors' = ride_monitors]_vars

\* the socketIds recorded in the participant entries of the active rides
SocketIds(ar, hp) ==
  UNION { { hp[ar[i][2]][j][2] : j \in DOMAIN hp[ar[i][2]] } : i \in DOMAIN ar }

\* the step is the one in which the disconnect handler of session sid finishes
DisconnectOver(sid) ==
  LET running(hs) == \E h \in BagToSet(hs) : h.kind = "disconnect" /\ h.sid = sid
  IN /\ sid \in sio_log'.closed
     /\ ~running(handler')
     /\ sid \notin sio_log.closed \/ running(handler)

\* C25: once the disconnect handler of a session has finished, no participant
\* entry of an active ride records the session as its socketId
C25_DisconnectLeavesNoEntry ==
  [][\A sid \in Sids :
       DisconnectOver(sid) => sid \notin SocketIds(active_rides', heap')]_vars

\* C26: leave_ride takes the calling socket out of the ride's room: in the
\* step in which a leave_ride handler finishes, its session is not (or no
\* more) in the room of its ride
C26_LeaveRideLeavesRoom ==
  [][\A h \in BagToSet(handler) :
       (h.kind = "leave_ride" /\ CopiesIn(h, handler') < CopiesIn(h, handler)) =>
         <<h.sid, h.ride>> \notin rooms']_vars

\* C27: a participant's entry is changed only through its own socket: a
\* leave_ride handler that starts on a ride takes the named user out of the
\* participants only if the user's entry records the handler's session as its
\* socketId
C27_OnlyOwnSocketRemoves ==
  [][\A h \in BagToSet(handler') :
       ( /\ h.kind = "leave_ride"
         /\ CopiesIn(h, handler') > CopiesIn(h, handler)
         /\ h.user \in Keys(heap[h.obj]) )
       => Get(heap[h.obj], h.user) = h.sid]_vars

\* C28: the number of accepted participants of a ride never exceeds the
\* ride's max_participants
C28_NeverOverMaxParticipants ==
  ride # NoRide => get_participant_count(ride_participants) <= ride.max_participants

C30_SpentTokenRejected ==
  [][\A c \in refreshing' \ refreshing : c.token \notin spent]_vars

====
